---- MODULE Spec2Model ----
(***************************************************************************)
(* chatweb backend: the provider registry and its startup (main.py), the  *)
(* in-memory mock provider (mockchat.py) and the Keybase provider's        *)
(* reconciliation of CLI replies and directory lookups (keybase.py).       *)
(*                                                                         *)
(* Python values are modelled as follows: a str is a TLA+ string, except   *)
(* a channel name, which is a sequence of pieces so that str.split(",")    *)
(* is computed; None is the string "None"; a datetime is an integer (clock *)
(* ticks in the mock provider, microseconds in the Keybase provider); a    *)
(* pydantic model or a JSON object is a record; a list is a sequence; a    *)
(* dict is a function on its keys, or the sequence of its values in key    *)
(* insertion order where that order is used.  A call's outcome is          *)
(* [status |-> "ok", value |-> v] or [status |-> "error", error |-> e],    *)
(* e naming the exception that propagates to the caller.                   *)
(***************************************************************************)
EXTENDS Integers, Sequences, FiniteSets, TLC

VARIABLES
    lifespan,        \* main.lifespan: "gathering" | "serving" | "failed"
    pcKeybase,       \* task KeybaseChatProvider.init(): "ready" | "done"
    pcMock,          \* task MockChatProvider.init(): "ready" | "users" | "bacon" | "done" | "failed"
    fetched,         \* init's dict under construction: one message list per conversation so far
    _me,             \* MockChatProvider._me
    _contacts,       \* MockChatProvider._contacts
    _conversations,  \* MockChatProvider._conversations
    _messages,       \* MockChatProvider._messages: conversation id -> list of Message
    now,             \* the wall clock read by datetime.now(), in ticks
    sends,           \* number of POST /messages handled (bounds the run)
    request,         \* the request last handled by the facade
    response,        \* its outcome
    kbUser,          \* Keybase: `whoami -j` reply's user
    kbConversations, \* Keybase: `list` reply's result.conversations
    kbOwners,        \* Keybase: `listmembers` reply's result.owners, per conversation
    kbDirectory,     \* keybase.io user/lookup: username -> record kind
    kbMessages       \* Keybase: the store `read` pages from, or a raw `read` reply

mockVars == <<_me, _contacts, _conversations, _messages>>
startVars == <<lifespan, pcKeybase, pcMock, fetched>>
kbVars == <<kbUser, kbConversations, kbOwners, kbDirectory, kbMessages>>
vars == <<startVars, mockVars, now, sends, request, response, kbVars>>

----------------------------------------------------------------------------
\* Bounds of the model.
\* People in a randomuser.me reply (the first is the caller).
MaxResults == 3
\* Paragraphs in a baconipsum.com reply.
MaxBacon == 1
\* Ticks of the wall clock.
MaxClock == 1
\* POST /messages requests in a run of Spec.
MaxSends == 2
\* Messages in a raw `read` reply.
MaxMsgs == 3
\* Conversations whose members contacts() fetches.
MaxMemberLists == 2
\* Conversations in a `list` reply read by conversations().
MaxConvs == 3
\* POST /messages requests in a run of SpecPage.
MaxBurst == 3

None == "None"

Ok(v) == [status |-> "ok", value |-> v]
Err(e) == [status |-> "error", error |-> e]

\* A request as the facade receives it: the provider-id header, the operation and
\* its arguments (None where the operation has none).
Req(provider, op, conversation_id, body) ==
    [provider |-> provider, op |-> op, conversation_id |-> conversation_id, body |-> body]

NoRequest == Req("none", "none", None, None)
NoResponse == [status |-> "none"]

----------------------------------------------------------------------------
\* model.py value types

Contact(id, name, avatar) == [id |-> id, name |-> name, avatar |-> avatar]

Conversation(id, name, avatar, last_active) ==
    [id |-> id, name |-> name, avatar |-> avatar, last_active |-> last_active]

Message(timestamp, body, sender) ==
    [timestamp |-> timestamp, body |-> body, sender |-> sender]

SendMessage(conversation_id, body) ==
    [conversation_id |-> conversation_id, body |-> body]

----------------------------------------------------------------------------
\* mockchat.py

\* The people randomuser.me can report (login.uuid, name.first, name.last,
\* picture.thumbnail); uuids are distinct.
RandomUsers ==
    << [uuid |-> "u0", first |-> "Ann", last |-> "A", thumbnail |-> "t0"],
       [uuid |-> "u1", first |-> "Ben", last |-> "B", thumbnail |-> "t1"],
       [uuid |-> "u2", first |-> "Cat", last |-> "C", thumbnail |-> "t2"],
       [uuid |-> "u3", first |-> "Dan", last |-> "D", thumbnail |-> "t3"],
       [uuid |-> "u4", first |-> "Eve", last |-> "E", thumbnail |-> "t4"] >>

\* Replies to GET randomuser.me/api: a transport failure, or a results list.
RandomUserReplies ==
    {[ok |-> FALSE, results |-> <<>>]} \cup
    {[ok |-> TRUE, results |-> SubSeq(RandomUsers, 1, n)] : n \in 0..MaxResults}

\* Replies to GET baconipsum.com/api: a transport failure, or a list of paragraphs.
BaconReplies ==
    {[ok |-> FALSE, paragraphs |-> <<>>]} \cup
    {[ok |-> TRUE, paragraphs |-> [i \in 1..n |-> "bacon"]] : n \in 0..MaxBacon}

\* init, lines 36-43: one Contact per result.
all_contacts(results) ==
    [i \in 1..Len(results) |->
        Contact(results[i].uuid,
                <<results[i].first, " ", results[i].last>>,
                results[i].thumbnail)]

\* init, lines 47-49: Conversation(**contact.model_dump()); last_active defaults to None.
conversations_of(contacts) ==
    [i \in 1..Len(contacts) |->
        Conversation(contacts[i].id, contacts[i].name, contacts[i].avatar, None)]

\* init.get_messages, lines 56-63: one Message per paragraph, stamped datetime.now(),
\* sender drawn by random.choice([conversation_id, self._me.id]).
get_messages(paragraphs, senders, ts) ==
    [i \in 1..Len(paragraphs) |-> Message(ts, paragraphs[i], senders[i])]

\* init, lines 65-68: the dict built from the per-conversation lists.
messages_dict(conversations, lists) ==
    [c \in {conversations[i].id : i \in 1..Len(conversations)} |->
        lists[CHOOSE i \in 1..Len(conversations) :
                /\ conversations[i].id = c
                /\ \A j \in (i + 1)..Len(conversations) : conversations[j].id # c]]

EmptyDict == [c \in {} |-> <<>>]

\* The task is scheduled by asyncio.gather and runs to its first await (line 33).
Mock_init_start ==
    /\ pcMock = "ready"
    /\ pcMock' = "users"
    /\ UNCHANGED <<lifespan, pcKeybase, fetched, mockVars, now, sends, request, response, kbVars>>

\* init resumes with the randomuser reply (lines 34-49) and runs to the first
\* baconipsum request, or to the end when there is no conversation.
Mock_init_users ==
    /\ pcMock = "users"
    /\ \E reply \in RandomUserReplies :
        IF ~reply.ok \/ Len(reply.results) = 0
        THEN \* aiohttp error, or IndexError at all_contacts[0]: nothing assigned
             /\ pcMock' = "failed"
             /\ UNCHANGED <<fetched, mockVars>>
        ELSE /\ _me' = all_contacts(reply.results)[1]
             /\ _contacts' = Tail(all_contacts(reply.results))
             /\ _conversations' = conversations_of(_contacts')
             /\ fetched' = <<>>
             /\ IF Len(_conversations') = 0
                THEN _messages' = EmptyDict /\ pcMock' = "done"
                ELSE _messages' = _messages /\ pcMock' = "bacon"
    /\ UNCHANGED <<lifespan, pcKeybase, now, sends, request, response, kbVars>>

\* init resumes with the baconipsum reply for the next conversation (lines 51-68);
\* self._messages is assigned once, after the last one.
Mock_init_bacon ==
    /\ pcMock = "bacon"
    /\ \E reply \in BaconReplies :
        IF ~reply.ok
        THEN /\ pcMock' = "failed"
             /\ UNCHANGED <<fetched, mockVars>>
        ELSE LET c == _conversations[Len(fetched) + 1].id IN
             \E senders \in [1..Len(reply.paragraphs) -> {c, _me.id}] :
                /\ fetched' = Append(fetched, get_messages(reply.paragraphs, senders, now))
                /\ IF Len(fetched') = Len(_conversations)
                   THEN /\ _messages' = messages_dict(_conversations, fetched')
                        /\ pcMock' = "done"
                   ELSE /\ _messages' = _messages
                        /\ pcMock' = "bacon"
                /\ UNCHANGED <<_me, _contacts, _conversations>>
    /\ UNCHANGED <<lifespan, pcKeybase, now, sends, request, response, kbVars>>

----------------------------------------------------------------------------
\* keybase.py: init

\* KeybaseChatProvider.init is `pass`: the task completes at its first step.
Keybase_init ==
    /\ pcKeybase = "ready"
    /\ pcKeybase' = "done"
    /\ UNCHANGED <<lifespan, pcMock, fetched, mockVars, now, sends, request, response, kbVars>>

----------------------------------------------------------------------------
\* main.py: lifespan

\* asyncio.gather without return_exceptions: the first exception of a task is
\* raised to the awaiting lifespan, and startup fails.
lifespan_raise ==
    /\ lifespan = "gathering"
    /\ pcMock = "failed"
    /\ lifespan' = "failed"
    /\ UNCHANGED <<pcKeybase, pcMock, fetched, mockVars, now, sends, request, response, kbVars>>

\* gather returns when every init() has returned; lifespan yields and the app serves.
lifespan_yield ==
    /\ lifespan = "gathering"
    /\ pcKeybase = "done"
    /\ pcMock = "done"
    /\ lifespan' = "serving"
    /\ UNCHANGED <<pcKeybase, pcMock, fetched, mockVars, now, sends, request, response, kbVars>>

\* The wall clock advances (assumed never to step back).
Tick ==
    /\ now < MaxClock
    /\ now' = now + 1
    /\ UNCHANGED <<startVars, mockVars, sends, request, response, kbVars>>

----------------------------------------------------------------------------
\* mockchat.py: the operations served after startup

Bodies == {"hi", "yo"}

\* Conversation ids a client may send: the known ones and an unknown one.
RequestIds(conversations) == {conversations[i].id : i \in 1..Len(conversations)} \cup {"nope"}

\* Variant: the message is attributed to the conversation's contact.
send_message_append_peer(messages, req, me, ts) ==
    [messages EXCEPT ![req.conversation_id] =
        Append(@, Message(ts, req.body, req.conversation_id))]

\* Variant: the message is appended to every conversation's list.
send_message_append_all(messages, req, me, ts) ==
    [c \in DOMAIN messages |-> Append(messages[c], Message(ts, req.body, me.id))]

\* send_message, lines 83-85: append one Message to the addressed list.
send_message_append(messages, req, me, ts) ==
    [messages EXCEPT ![req.conversation_id] = Append(@, Message(ts, req.body, me.id))]

\* messages, line 80: the stored list itself; KeyError for an unknown id.
mock_messages(messages, conversation_id) ==
    IF conversation_id \in DOMAIN messages
    THEN Ok(messages[conversation_id])
    ELSE Err("KeyError")

Mock_whoami ==
    /\ lifespan = "serving"
    /\ request' = Req("mock", "whoami", None, None)
    /\ response' = Ok(_me)
    /\ UNCHANGED <<startVars, mockVars, now, sends, kbVars>>

Mock_contacts ==
    /\ lifespan = "serving"
    /\ request' = Req("mock", "contacts", None, None)
    /\ response' = Ok(_contacts)
    /\ UNCHANGED <<startVars, mockVars, now, sends, kbVars>>

Mock_conversations ==
    /\ lifespan = "serving"
    /\ request' = Req("mock", "conversations", None, None)
    /\ response' = Ok(_conversations)
    /\ UNCHANGED <<startVars, mockVars, now, sends, kbVars>>

Mock_messages(c) ==
    /\ lifespan = "serving"
    /\ request' = Req("mock", "messages", c, None)
    /\ response' = mock_messages(_messages, c)
    /\ UNCHANGED <<startVars, mockVars, now, sends, kbVars>>

Mock_send_message(c, b, limit) ==
    /\ lifespan = "serving"
    /\ sends < limit
    /\ sends' = sends + 1
    /\ request' = Req("mock", "send_message", c, b)
    /\ IF c \in DOMAIN _messages
       THEN /\ _messages' = send_message_append(_messages, SendMessage(c, b), _me, now)
            /\ response' = Ok(None)
       ELSE /\ _messages' = _messages
            /\ response' = Err("KeyError")
    /\ UNCHANGED <<startVars, _me, _contacts, _conversations, now, kbVars>>

----------------------------------------------------------------------------
\* main.py: get_provider

\* _providers_map[provider_id] for an id that is no provider's: KeyError.
get_provider_unknown ==
    /\ lifespan = "serving"
    /\ request' = Req("nope", "whoami", None, None)
    /\ response' = Err("KeyError")
    /\ UNCHANGED <<startVars, mockVars, now, sends, kbVars>>

----------------------------------------------------------------------------
\* keybase.py: whoami

DiceBear(seed) == [kind |-> "dicebear", seed |-> seed]

\* slugify on the usernames of the model: lower-case, "_" becomes "-".
slugify(username) ==
    CASE username = "alice" -> "alice"
      [] username = "bob" -> "bob"
      [] username = "carol" -> "carol"
      [] username = "Dave_K" -> "dave-k"
      [] OTHER -> username

\* whoami, lines 143-150; run raises RuntimeError on a non-zero exit status.
keybase_whoami(exit_ok, user) ==
    IF exit_ok
    THEN Ok(Contact(user.uid, user.username, DiceBear(slugify(user.username))))
    ELSE Err("RuntimeError")

Keybase_whoami ==
    /\ lifespan = "serving"
    /\ request' = Req("keybase", "whoami", None, None)
    /\ \E exit_ok \in BOOLEAN : response' = keybase_whoami(exit_ok, kbUser)
    /\ UNCHANGED <<startVars, mockVars, now, sends, kbVars>>

----------------------------------------------------------------------------
\* keybase.py: messages and send_message

\* "pagination": {"num": 100} of the read request, line 274.
PageSize == 100

\* content.text of a message of a `read` reply: the key may be missing, null, or
\* an object with a body.
TextAbsent == [json |-> "absent", body |-> ""]
TextNull == [json |-> "null", body |-> ""]
TextOf(body) == [json |-> "object", body |-> body]

KeybaseMessage(id, uid, sent_at, type, text) ==
    [id |-> id, sender |-> uid, sent_at |-> sent_at, type |-> type, text |-> text]

\* datetime.fromtimestamp(seconds), as microseconds (the local UTC offset is
\* taken to be constant).
fromtimestamp(seconds) == seconds * 1000000

\* ReadResponse(**data), lines 64-87: `text: KeybaseText | None` has no default, so
\* pydantic requires the key (null is accepted, a missing key is not).
ReadResponse_valid(reply) ==
    \A i \in 1..Len(reply) : reply[i].text.json # "absent"

\* The generator of lines 281-290: `if message.msg.content.text` keeps the messages
\* whose text is not None; Message has no id field, so the id is dropped.
text_messages(reply) ==
    LET has_text(m) == m.text.json = "object"
        kept == SelectSeq(reply, has_text)
    IN [i \in 1..Len(kept) |->
            Message(fromtimestamp(kept[i].sent_at), kept[i].text.body, kept[i].sender)]

\* Variant: the messages are returned in the order of the reply.
unsorted_by_timestamp(ms) == ms

\* sorted(..., key=lambda m: m.timestamp): stable, ascending.  Key by key from
\* the smallest, the elements with that key in their original order.
RECURSIVE sorted_by_timestamp_keys(_, _)
sorted_by_timestamp_keys(ms, keys) ==
    IF keys = {} THEN <<>>
    ELSE LET t == CHOOSE k \in keys : \A u \in keys : k <= u
             has_key(x) == x.timestamp = t
         IN SelectSeq(ms, has_key) \o sorted_by_timestamp_keys(ms, keys \ {t})

sorted_by_timestamp(ms) ==
    sorted_by_timestamp_keys(ms, {ms[i].timestamp : i \in 1..Len(ms)})

\* messages, lines 267-292.
keybase_messages(exit_ok, reply) ==
    IF ~exit_ok THEN Err("RuntimeError")
    ELSE IF ~ReadResponse_valid(reply) THEN Err("ValidationError")
    ELSE Ok(sorted_by_timestamp(text_messages(reply)))

\* The `read` replies of the model: up to MaxMsgs messages, a text message carrying
\* its text object, any other message carrying no text (key missing or null).
ReplyMessages(i) ==
    {KeybaseMessage(i, uid, t, "text", TextOf(b)) :
        uid \in {"uid_alice", "uid_bob"}, t \in 1..2, b \in {"hi"}} \cup
    {KeybaseMessage(i, "uid_bob", t, "attachment", x) :
        t \in 1..2, x \in {TextAbsent, TextNull}}

ReadReplies ==
    UNION {{r \in [1..n -> UNION {ReplyMessages(i) : i \in 1..n}] :
                \A i \in 1..n : r[i].id = i} : n \in 0..MaxMsgs}

\* GET /messages on the Keybase provider, the backend replying kbMessages.
Keybase_messages ==
    /\ request' = Req("keybase", "messages", "c1", None)
    /\ \E exit_ok \in BOOLEAN : response' = keybase_messages(exit_ok, kbMessages)
    /\ UNCHANGED <<startVars, mockVars, now, sends, kbVars>>

InitMessages ==
    /\ lifespan = "serving"
    /\ pcKeybase = "done"
    /\ pcMock = "done"
    /\ fetched = <<>>
    /\ _me = all_contacts(RandomUsers)[1]
    /\ _contacts = <<>>
    /\ _conversations = <<>>
    /\ _messages = EmptyDict
    /\ now = 0
    /\ sends = 0
    /\ request = NoRequest
    /\ response = NoResponse
    /\ kbUser = [uid |-> "uid_alice", username |-> "alice"]
    /\ kbConversations = <<>>
    /\ kbOwners = <<>>
    /\ kbDirectory = <<>>
    /\ kbMessages \in ReadReplies

NextMessages == Keybase_messages

SpecMessages == InitMessages /\ [][NextMessages]_vars

----------------------------------------------------------------------------
\* Long histories: conversations that already hold almost a page of messages.

\* The backend's reply to `read` with pagination num: the num most recent
\* messages of the conversation, most recent first.
read_page(store, num) ==
    LET n == IF Len(store) < num THEN Len(store) ELSE num IN
    [i \in 1..n |-> store[Len(store) + 1 - i]]

\* GET /messages on the Keybase provider, the backend paging its store.
Keybase_messages_paged ==
    /\ request' = Req("keybase", "messages", "c1", None)
    /\ \E exit_ok \in BOOLEAN :
        response' = keybase_messages(exit_ok, read_page(kbMessages, PageSize))
    /\ UNCHANGED <<startVars, mockVars, now, sends, kbVars>>

\* send_message, lines 294-306: the backend stores the message, stamped with its
\* clock and the caller's uid, and the call returns its acknowledgment.
Keybase_send_message(b, limit) ==
    /\ sends < limit
    /\ sends' = sends + 1
    /\ request' = Req("keybase", "send_message", "c1", b)
    /\ kbMessages' = Append(kbMessages,
            KeybaseMessage(Len(kbMessages) + 1, kbUser.uid, now, "text", TextOf(b)))
    /\ response' = Ok("ack")
    /\ UNCHANGED <<startVars, mockVars, now, kbUser, kbConversations, kbOwners, kbDirectory>>

\* Both providers after PageSize - 1 messages were sent to one conversation at
\* clock 0: the mock provider as init() leaves it with one contact and no
\* paragraphs, then the sends; the Keybase backend's store likewise.
InitPage ==
    /\ lifespan = "serving"
    /\ pcKeybase = "done"
    /\ pcMock = "done"
    /\ fetched = <<>>
    /\ _me = all_contacts(RandomUsers)[1]
    /\ _contacts = SubSeq(all_contacts(RandomUsers), 2, 2)
    /\ _conversations = conversations_of(_contacts)
    /\ _messages = [c \in {"u1"} |-> [i \in 1..(PageSize - 1) |-> Message(0, "hi", _me.id)]]
    /\ now = 0
    /\ sends = 0
    /\ request = NoRequest
    /\ response = NoResponse
    /\ kbUser = [uid |-> "uid_alice", username |-> "alice"]
    /\ kbConversations = <<>>
    /\ kbOwners = <<>>
    /\ kbDirectory = <<>>
    /\ kbMessages = [i \in 1..(PageSize - 1) |->
                        KeybaseMessage(i, "uid_alice", 0, "text", TextOf("hi"))]

NextPage ==
    \/ Tick
    \/ Mock_messages("u1")
    \/ Mock_send_message("u1", "hi", MaxBurst)
    \/ Keybase_messages_paged
    \/ Keybase_send_message("hi", MaxBurst)

SpecPage == InitPage /\ [][NextPage]_vars

----------------------------------------------------------------------------
\* keybase.py: the `list` reply and the directory lookup

KbConversation(id, name, members_type, active_at_ms) ==
    [id |-> id, name |-> name, members_type |-> members_type, active_at_ms |-> active_at_ms]

\* Conversation ids of `list` replies, unique within the backend.
ConvIds == <<"c1", "c2", "c3", "c4", "c5">>

\* A picture URL the directory reports for a user.
PictureUrl(username) == [kind |-> "keybase", seed |-> username]

\* What keybase.io/_/api/1.0/user/lookup.json holds for a username: nothing
\* ("absent": no entry in `them`), a null entry, an empty object, or a record
\* with basics and, optionally, profile and pictures.
DirectoryKinds == {"absent", "null", "empty", "basics", "profile", "pictures", "full"}

DirectoryEntry(kind, username) ==
    [json |-> IF kind = "null" THEN "null" ELSE "object",
     keys |-> CASE kind = "basics" -> {"basics"}
                [] kind = "profile" -> {"basics", "profile"}
                [] kind = "pictures" -> {"basics", "pictures"}
                [] kind = "full" -> {"basics", "profile", "pictures"}
                [] OTHER -> {},
     username |-> username,
     full_name |-> <<"Full name of ", username>>,
     url |-> PictureUrl(username)]

\* The `them` array of the reply for the requested usernames, in request order.
RECURSIVE them(_, _)
them(usernames, directory) ==
    IF usernames = <<>> THEN <<>>
    ELSE LET u == Head(usernames)
             kind == IF u \in DOMAIN directory THEN directory[u] ELSE "absent" IN
         IF kind = "absent"
         THEN them(Tail(usernames), directory)
         ELSE <<DirectoryEntry(kind, u)>> \o them(Tail(usernames), directory)

----------------------------------------------------------------------------
\* keybase.py: contacts

Owner(uid, username, fullName) ==
    [uid |-> uid, username |-> username, fullName |-> fullName]

\* for r in conversation_members_list for o in r.result.owners (line 170).
RECURSIVE flatten(_)
flatten(lists) ==
    IF lists = <<>> THEN <<>> ELSE Head(lists) \o flatten(Tail(lists))

\* Variant: the owners are keyed by username.
dict_put_by_username(d, o) ==
    IF \E i \in 1..Len(d) : d[i].username = o.username
    THEN [d EXCEPT ![CHOOSE i \in 1..Len(d) : d[i].username = o.username] = o]
    ELSE Append(d, o)

\* One insertion into {o.uid: o ...}: a new key goes last, a known key keeps its
\* place and takes the new value.  The dict is the sequence of its values.
dict_put(d, o) ==
    IF \E i \in 1..Len(d) : d[i].uid = o.uid
    THEN [d EXCEPT ![CHOOSE i \in 1..Len(d) : d[i].uid = o.uid] = o]
    ELSE Append(d, o)

\* owners = {o.uid: o for ...}, line 170.
RECURSIVE owners_dict(_)
owners_dict(flat) ==
    IF flat = <<>> THEN <<>>
    ELSE dict_put(owners_dict(SubSeq(flat, 1, Len(flat) - 1)), flat[Len(flat)])

\* The exception of the comprehension of lines 178-182, or "none": `"pictures" in
\* u` raises TypeError for a null entry; u["basics"] raises KeyError.
avatars_error(entries) ==
    IF \E i \in 1..Len(entries) : entries[i].json = "null" THEN "TypeError"
    ELSE IF \E i \in 1..Len(entries) :
              "pictures" \in entries[i].keys /\ "basics" \notin entries[i].keys
         THEN "KeyError"
         ELSE "none"

\* avatars, lines 178-182: username -> picture URL, for the entries with pictures.
avatars(entries) ==
    LET with == {i \in 1..Len(entries) : "pictures" \in entries[i].keys} IN
    [u \in {entries[i].username : i \in with} |->
        entries[CHOOSE i \in with :
                    /\ entries[i].username = u
                    /\ \A j \in with : j > i => entries[j].username # u].url]

\* Variant: the name is always the username.
owner_to_contact_username(o, avs) ==
    Contact(o.uid, o.username,
            IF o.username \in DOMAIN avs THEN avs[o.username] ELSE DiceBear(o.username))

\* owner_to_contact, lines 184-193; `if o.fullName` is false for None and "".
owner_to_contact(o, avs) ==
    LET name == IF o.fullName # None /\ o.fullName # "" THEN o.fullName ELSE o.username IN
    Contact(o.uid, name,
            IF o.username \in DOMAIN avs THEN avs[o.username] ELSE DiceBear(name))

\* contacts, lines 161-195.  exit_ok: every `keybase chat api` call exited 0.
keybase_contacts(exit_ok, member_lists, directory) ==
    IF ~exit_ok THEN Err("RuntimeError")
    ELSE LET owners == owners_dict(flatten(member_lists))
             usernames == [i \in 1..Len(owners) |-> owners[i].username]
             entries == them(usernames, directory)
         IN IF avatars_error(entries) # "none" THEN Err(avatars_error(entries))
            ELSE Ok([i \in 1..Len(owners) |-> owner_to_contact(owners[i], avatars(entries))])

\* GET /contacts on the Keybase provider.
Keybase_contacts ==
    /\ request' = Req("keybase", "contacts", None, None)
    /\ \E exit_ok \in BOOLEAN :
        response' = keybase_contacts(exit_ok, kbOwners, kbDirectory)
    /\ UNCHANGED <<startVars, mockVars, now, sends, kbVars>>

\* The owners a `listmembers` reply can name: the same uid may come with
\* different usernames and full names.
Bob == Owner("uid_bob", "bob", None)
BobFull == Owner("uid_bob", "bob", "Bob B")
Bobby == Owner("uid_bob", "bobby", "")
Carol == Owner("uid_carol", "carol", None)
CarolFull == Owner("uid_carol", "carol", "Carol C")

OwnerLists ==
    { <<>>, <<Bob>>, <<BobFull>>, <<Bobby>>, <<Carol>>,
      <<Bob, Carol>>, <<CarolFull, BobFull>>, <<Bobby, Bob>> }

Usernames == {"alice", "bob", "bobby", "carol"}

\* The directories of the contacts model.
ContactDirectories ==
    {d \in [Usernames -> DirectoryKinds] :
        /\ d["alice"] = "absent"
        /\ d["bobby"] = "absent"
        /\ d["bob"] \in {"absent", "null", "empty", "basics", "pictures"}
        /\ d["carol"] \in {"absent", "pictures"}}

InitContacts ==
    /\ lifespan = "serving"
    /\ pcKeybase = "done"
    /\ pcMock = "done"
    /\ fetched = <<>>
    /\ _me = all_contacts(RandomUsers)[1]
    /\ _contacts = <<>>
    /\ _conversations = <<>>
    /\ _messages = EmptyDict
    /\ now = 0
    /\ sends = 0
    /\ request = NoRequest
    /\ response = NoResponse
    /\ kbUser = [uid |-> "uid_alice", username |-> "alice"]
    /\ \E n \in 0..MaxMemberLists :
        /\ kbConversations = [i \in 1..n |-> KbConversation(ConvIds[i], <<"bob">>, "impteamnative", 100)]
        /\ kbOwners \in [1..n -> OwnerLists]
    /\ kbDirectory \in ContactDirectories
    /\ kbMessages = <<>>

NextContacts == Keybase_contacts

SpecContacts == InitContacts /\ [][NextContacts]_vars

----------------------------------------------------------------------------
\* keybase.py: conversations

\* A channel name is a str given in pieces, "," being a piece of its own.
RECURSIVE concat(_)
concat(pieces) ==
    IF pieces = <<>> THEN "" ELSE Head(pieces) \o concat(Tail(pieces))

\* channel.name.split(","), line 206.
RECURSIVE split(_)
split(pieces) ==
    IF \A i \in 1..Len(pieces) : pieces[i] # ","
    THEN <<concat(pieces)>>
    ELSE LET i == CHOOSE k \in 1..Len(pieces) :
                      pieces[k] = "," /\ \A j \in 1..(k - 1) : pieces[j] # ","
         IN <<concat(SubSeq(pieces, 1, i - 1))>> \o split(SubSeq(pieces, i + 1, Len(pieces)))

not_me(usernames, me) ==
    LET keep(u) == u # me IN SelectSeq(usernames, keep)

\* Variant: the first name left after removing the caller is taken.
get_username_first(name, me) ==
    LET usernames == split(name) IN
    IF Len(usernames) = 1 THEN Ok(usernames[1])
    ELSE IF Len(not_me(usernames, me)) = 0 THEN Err("ValueError")
    ELSE Ok(not_me(usernames, me)[1])

\* get_username, lines 205-215.
get_username(name, me) ==
    LET usernames == split(name) IN
    IF Len(usernames) = 1 THEN Ok(usernames[1])
    ELSE IF Len(not_me(usernames, me)) # 1 THEN Err("ValueError")
    ELSE Ok(not_me(usernames, me)[1])

\* datetime.fromtimestamp(active_at_ms / 1000), as microseconds.
fromtimestamp_ms(ms) == ms * 1000

\* The exception of the comprehension of line 231, or "none": `if u` skips null
\* and empty entries; u["basics"] raises KeyError.
users_error(entries) ==
    IF \E i \in 1..Len(entries) :
          /\ entries[i].json = "object"
          /\ entries[i].keys # {}
          /\ "basics" \notin entries[i].keys
    THEN "KeyError"
    ELSE "none"

\* users, line 231: username -> record, for the entries that are truthy.
users_dict(entries) ==
    LET truthy == {i \in 1..Len(entries) :
                      entries[i].json = "object" /\ entries[i].keys # {}} IN
    [u \in {entries[i].username : i \in truthy} |->
        entries[CHOOSE i \in truthy :
                    /\ entries[i].username = u
                    /\ \A j \in truthy : j > i => entries[j].username # u]]

\* map_conversation, lines 233-259, for a channel whose peer resolves to username.
map_conversation(conversation, username, users) ==
    IF conversation.members_type = "team"
    THEN Conversation(conversation.id, concat(conversation.name),
                      DiceBear(concat(conversation.name)),
                      fromtimestamp_ms(conversation.active_at_ms))
    ELSE LET keys == IF username \in DOMAIN users THEN users[username].keys ELSE {}
             full_name == IF "profile" \in keys THEN users[username].full_name ELSE username
         IN Conversation(conversation.id, full_name,
                         IF "pictures" \in keys THEN users[username].url
                         ELSE DiceBear(full_name),
                         fromtimestamp_ms(conversation.active_at_ms))

\* Stable ascending sort by last_active.
RECURSIVE sorted_by_last_active_keys(_, _)
sorted_by_last_active_keys(cs, keys) ==
    IF keys = {} THEN <<>>
    ELSE LET t == CHOOSE k \in keys : \A u \in keys : k <= u
             has_key(x) == x.last_active = t
         IN SelectSeq(cs, has_key) \o sorted_by_last_active_keys(cs, keys \ {t})

sorted_by_last_active(cs) ==
    sorted_by_last_active_keys(cs, {cs[i].last_active : i \in 1..Len(cs)})

\* Variant: the ascending sort, reversed (equal keys end up in reverse order).
sorted_then_reversed(cs) ==
    LET asc == sorted_by_last_active(cs) IN
    [i \in 1..Len(asc) |-> asc[Len(asc) + 1 - i]]

\* sorted(..., key=lambda c: c.last_active, reverse=True), lines 261-265: stable,
\* descending; elements with equal keys keep their original order.
RECURSIVE sorted_by_last_active_reverse_keys(_, _)
sorted_by_last_active_reverse_keys(cs, keys) ==
    IF keys = {} THEN <<>>
    ELSE LET t == CHOOSE k \in keys : \A u \in keys : k >= u
             has_key(x) == x.last_active = t
         IN SelectSeq(cs, has_key) \o sorted_by_last_active_reverse_keys(cs, keys \ {t})

sorted_by_last_active_reverse(cs) ==
    sorted_by_last_active_reverse_keys(cs, {cs[i].last_active : i \in 1..Len(cs)})

is_individual(c) == c.members_type # "team"

\* conversations, lines 197-265.  exit_ok: every `keybase` command exited 0.
keybase_conversations(exit_ok, me, conversations, directory) ==
    IF ~exit_ok THEN Err("RuntimeError")
    ELSE LET individual == SelectSeq(conversations, is_individual)
             resolved == [i \in 1..Len(individual) |-> get_username(individual[i].name, me)]
         IN IF \E i \in 1..Len(resolved) : resolved[i].status = "error"
            THEN Err("ValueError")
            ELSE LET usernames == [i \in 1..Len(resolved) |-> resolved[i].value]
                     entries == them(usernames, directory)
                 IN IF users_error(entries) # "none" THEN Err(users_error(entries))
                    ELSE Ok(sorted_by_last_active_reverse(
                            [i \in 1..Len(conversations) |->
                                map_conversation(
                                    conversations[i],
                                    IF is_individual(conversations[i])
                                    THEN get_username(conversations[i].name, me).value
                                    ELSE None,
                                    users_dict(entries))]))

\* GET /conversations on the Keybase provider.
Keybase_conversations ==
    /\ request' = Req("keybase", "conversations", None, None)
    /\ \E exit_ok \in BOOLEAN :
        response' = keybase_conversations(exit_ok, kbUser.username, kbConversations, kbDirectory)
    /\ UNCHANGED <<startVars, mockVars, now, sends, kbVars>>

\* The channels of the model: a team, a one-name channel, a two-party channel
\* naming the caller, a three-party channel, a channel of two other people.
Channels ==
    { [name |-> <<"acme">>, members_type |-> "team"],
      [name |-> <<"bob">>, members_type |-> "impteamnative"],
      [name |-> <<"alice", ",", "bob">>, members_type |-> "impteamnative"],
      [name |-> <<"alice", ",", "bob", ",", "carol">>, members_type |-> "impteamnative"],
      [name |-> <<"bob", ",", "carol">>, members_type |-> "impteamnative"] }

ActiveAt == {100, 200}

ConversationDirectories ==
    {d \in [Usernames -> DirectoryKinds] :
        /\ d["alice"] \in {"absent", "full"}
        /\ d["bobby"] = "absent"
        /\ d["bob"] \in {"absent", "null", "empty", "profile", "full"}
        /\ d["carol"] = "absent"}

InitConversations ==
    /\ lifespan = "serving"
    /\ pcKeybase = "done"
    /\ pcMock = "done"
    /\ fetched = <<>>
    /\ _me = all_contacts(RandomUsers)[1]
    /\ _contacts = <<>>
    /\ _conversations = <<>>
    /\ _messages = EmptyDict
    /\ now = 0
    /\ sends = 0
    /\ request = NoRequest
    /\ response = NoResponse
    /\ kbUser \in {[uid |-> "uid_alice", username |-> "alice"],
                   [uid |-> "uid_bob", username |-> "bob"]}
    /\ \E n \in 0..MaxConvs :
        \E ch \in [1..n -> Channels], at \in [1..n -> ActiveAt] :
            kbConversations =
                [i \in 1..n |->
                    KbConversation(ConvIds[i], ch[i].name, ch[i].members_type, at[i])]
    /\ kbOwners = <<>>
    /\ kbDirectory \in ConversationDirectories
    /\ kbMessages = <<>>

NextConversations == Keybase_conversations

SpecConversations == InitConversations /\ [][NextConversations]_vars

----------------------------------------------------------------------------
\* The program: startup, then the mock provider's operations and whoami.  The
\* clock stands at its initial value here; it advances in SpecPage, where the
\* order of timestamps is at stake.

Init ==
    /\ lifespan = "gathering"
    /\ pcKeybase = "ready"
    /\ pcMock = "ready"
    /\ fetched = <<>>
    /\ _me = None
    /\ _contacts = <<>>
    /\ _conversations = <<>>
    /\ _messages = EmptyDict
    /\ now = 0
    /\ sends = 0
    /\ request = NoRequest
    /\ response = NoResponse
    /\ kbUser = [uid |-> "uid_dave", username |-> "Dave_K"]
    /\ kbConversations = <<>>
    /\ kbOwners = <<>>
    /\ kbDirectory = <<>>
    /\ kbMessages = <<>>

Next ==
    \/ Keybase_init
    \/ Mock_init_start
    \/ Mock_init_users
    \/ Mock_init_bacon
    \/ lifespan_raise
    \/ lifespan_yield
    \/ Mock_whoami
    \/ Mock_contacts
    \/ Mock_conversations
    \/ \E c \in RequestIds(_conversations) : Mock_messages(c)
    \/ \E c \in RequestIds(_conversations), b \in Bodies : Mock_send_message(c, b, MaxSends)
    \/ get_provider_unknown
    \/ Keybase_whoami

Spec == Init /\ [][Next]_vars

----------------------------------------------------------------------------
\* Properties

Range(seq) == {seq[i] : i \in 1..Len(seq)}

IsPrefix(a, b) == Len(a) <= Len(b) /\ SubSeq(b, 1, Len(a)) = a

\* Oldest first: timestamps never decrease along the list.
OldestFirst(ms) ==
    \A i \in 1..Len(ms), j \in 1..Len(ms) : i < j => ms[i].timestamp <= ms[j].timestamp

Min(a, b) == IF a < b THEN a ELSE b

\* C6: on the mock provider, a successful send_message({c, b}) followed by
\* messages(c) returns a list holding a message with body b sent by whoami().id;
\* and no served operation removes or reorders stored messages, so a later
\* messages(c) holds it too.
C6_RoundTrip ==
    [][lifespan = "serving" =>
        /\ ( /\ request.provider = "mock" /\ request.op = "send_message"
             /\ response.status = "ok"
             /\ request'.provider = "mock" /\ request'.op = "messages"
             /\ request'.conversation_id = request.conversation_id )
           => /\ response'.status = "ok"
              /\ \E m \in Range(response'.value) :
                    m.body = request.body /\ m.sender = _me.id
        /\ \A c \in DOMAIN _messages :
              c \in DOMAIN _messages' /\ IsPrefix(_messages[c], _messages'[c])
    ]_vars

\* C6 witness: messages(c) has answered right after a send of "hi", with the
\* sent message in the list among earlier ones.
C6_Witness ==
    /\ request.provider = "mock" /\ request.op = "messages"
    /\ response.status = "ok"
    /\ Len(response.value) >= 2
    /\ sends >= 1
    /\ \E m \in Range(response.value) : m.body = "hi" /\ m.sender = _me.id

\* C8 (as stated): for both providers, every list messages() returns has at most
\* 100 entries and is ordered oldest-first.
C8_Original ==
    (request.op = "messages" /\ response.status = "ok")
        => Len(response.value) <= PageSize /\ OldestFirst(response.value)

\* C8 (amended): every list messages() returns is ordered oldest-first; the
\* Keybase provider returns the page of at most 100 it asked the backend for; the
\* mock provider returns its whole stored list, one entry per message stored,
\* with no cap.
C8_PageAndOrder ==
    (request.op = "messages" /\ response.status = "ok")
        => /\ OldestFirst(response.value)
           /\ request.provider = "keybase"
                => /\ Len(response.value) = Min(Len(kbMessages), PageSize)
                   /\ Len(response.value) <= PageSize
           /\ request.provider = "mock"
                => Len(response.value) = Len(_messages[request.conversation_id])

\* C8 witness: the Keybase conversation holds more than a page, stamped at
\* different times, and messages() has returned exactly one page.
C8_Witness ==
    /\ request.provider = "keybase" /\ request.op = "messages"
    /\ response.status = "ok"
    /\ Len(kbMessages) > PageSize
    /\ Len(response.value) = PageSize
    /\ response.value[1].timestamp < response.value[PageSize].timestamp

\* C9 (as stated): a failure of the mock provider's init() leaves startup, and
\* the Keybase provider whose init() succeeded, unaffected.
C9_Claim ==
    (pcMock = "failed" /\ pcKeybase = "done") => lifespan # "failed"

\* C10 (as stated): once init() has completed and the app serves, no operation
\* changes _me, _contacts, _conversations or _messages.
C10_Original ==
    [][lifespan = "serving" => UNCHANGED mockVars]_vars

\* C10 (amended): once the app serves, _me, _contacts and _conversations never
\* change, and _messages changes only by send_message, which appends exactly one
\* message to the addressed conversation's list and leaves the other lists alone.
C10_Frame ==
    [][lifespan = "serving" =>
        /\ UNCHANGED <<_me, _contacts, _conversations>>
        /\ _messages' # _messages =>
              /\ request'.provider = "mock" /\ request'.op = "send_message"
              /\ \E m \in Range(_messages'[request'.conversation_id]) :
                    _messages' = [_messages EXCEPT
                                    ![request'.conversation_id] = Append(@, m)]
    ]_vars

\* C10 witness: a send_message has appended to one of two conversations.
C10_Witness ==
    /\ lifespan = "serving"
    /\ request.provider = "mock" /\ request.op = "send_message"
    /\ response.status = "ok"
    /\ Cardinality(DOMAIN _messages) = 2
    /\ Len(_messages[request.conversation_id]) >= 1

\* The owner contacts() keeps for a uid: the last one the member lists name.
RetainedOwner(uid) ==
    LET flat == flatten(kbOwners)
        last == CHOOSE i \in 1..Len(flat) :
                    flat[i].uid = uid /\ \A j \in (i + 1)..Len(flat) : flat[j].uid # uid
    IN flat[last]

ContactsReturned ==
    request.provider = "keybase" /\ request.op = "contacts" /\ response.status = "ok"

\* C1: the list contacts() returns has no two entries with the same id and has
\* exactly one entry for each distinct owner uid of the member lists.
C1_Deduplicated ==
    ContactsReturned =>
        LET uids == {o.uid : o \in Range(flatten(kbOwners))} IN
        /\ \A i \in 1..Len(response.value), j \in 1..Len(response.value) :
              response.value[i].id = response.value[j].id => i = j
        /\ {c.id : c \in Range(response.value)} = uids
        /\ Len(response.value) = Cardinality(uids)

\* C1 witness: contacts() has returned two entries where one uid was named in two
\* conversations under different usernames.
C1_Witness ==
    /\ ContactsReturned
    /\ Len(response.value) = 2
    /\ Len(kbOwners) = 2
    /\ \E o \in Range(kbOwners[1]), q \in Range(kbOwners[2]) :
          o.uid = q.uid /\ o.username # q.username

\* C2 (as stated): whatever records the directory lacks (absent, null or empty
\* entries of `them`), contacts() completes and returns one entry per owner uid;
\* only a failed `keybase` command makes it raise.
C2_Claim ==
    (request.provider = "keybase" /\ request.op = "contacts")
        => \/ /\ response.status = "ok"
              /\ Len(response.value) = Cardinality({o.uid : o \in Range(flatten(kbOwners))})
           \/ /\ response.status = "error"
              /\ response.error = "RuntimeError"

\* C3 (as stated): for every owner of the member lists whose username has no
\* record in the directory reply, the contact with its uid is named by that
\* username and carries the placeholder avatar seeded by that username.
C3_Original ==
    ContactsReturned =>
        \A o \in Range(flatten(kbOwners)) :
            kbDirectory[o.username] \in {"absent", "null", "empty"} =>
                \E c \in Range(response.value) :
                    /\ c.id = o.uid
                    /\ c.name = o.username
                    /\ c.avatar = DiceBear(o.username)

\* C3 (amended): for every contact returned, built from the last owner the member
\* lists name for its uid, when the directory reply has no record for that
\* owner's username, the name is the owner's fullName if it is non-empty and the
\* username otherwise, and the avatar is the placeholder seeded by that name.
C3_FallbackName ==
    ContactsReturned =>
        \A c \in Range(response.value) :
            LET o == RetainedOwner(c.id) IN
            kbDirectory[o.username] \in {"absent", "null", "empty"} =>
                /\ o.fullName \in {None, ""} => c.name = o.username
                /\ o.fullName \notin {None, ""} => c.name = o.fullName
                /\ c.avatar = DiceBear(c.name)

\* C3 witness: a contact has been returned for an owner with a full name and no
\* directory record.
C3_Witness ==
    /\ ContactsReturned
    /\ \E c \in Range(response.value) :
          /\ kbDirectory[RetainedOwner(c.id).username] = "empty"
          /\ c.name = "Bob B"
          /\ c.avatar = DiceBear("Bob B")

ConversationsCalled ==
    request.provider = "keybase" /\ request.op = "conversations"

\* The names a channel lists that differ from the caller's username, by position.
OtherNames(c) ==
    {i \in 1..Len(split(c.name)) : split(c.name)[i] # kbUser.username}

\* The non-team conversations whose channel name lists two or more usernames.
MultiNamed ==
    {c \in Range(kbConversations) : c.members_type # "team" /\ Len(split(c.name)) >= 2}

\* C4: for a non-team channel naming two or more usernames, peer resolution
\* succeeds only when exactly one listed name differs from the caller's, and the
\* conversation is then resolved to that name, never the caller's; when another
\* number of names remains, conversations() raises and returns no list.
C4_PeerResolution ==
    ConversationsCalled =>
        /\ (\E c \in MultiNamed : Cardinality(OtherNames(c)) # 1)
              => /\ response.status = "error"
                 /\ response.error \in {"ValueError", "RuntimeError"}
        /\ response.status = "ok" =>
              \A c \in MultiNamed :
                  /\ Cardinality(OtherNames(c)) = 1
                  /\ \A i \in OtherNames(c) :
                        LET peer == split(c.name)[i] IN
                        /\ peer # kbUser.username
                        /\ get_username(c.name, kbUser.username) = Ok(peer)
                        /\ kbDirectory[peer] \in {"absent", "null", "empty"} =>
                              \E r \in Range(response.value) :
                                  r.id = c.id /\ r.name = peer /\ r.avatar = DiceBear(peer)

\* C4 witness: conversations() has raised ValueError for caller alice with a
\* channel named "alice,bob,carol".
C4_Witness ==
    /\ ConversationsCalled
    /\ kbUser.username = "alice"
    /\ \E c \in MultiNamed : split(c.name) = <<"alice", "bob", "carol">>
    /\ response.status = "error"
    /\ response.error = "ValueError"

\* Position of a conversation id in the backend's list.
InputIndex(id) == CHOOSE i \in 1..Len(kbConversations) : kbConversations[i].id = id

\* C5: the list conversations() returns is a permutation of the mapped inputs,
\* ordered by last_active descending, conversations with equal last_active
\* keeping the relative order of the backend's list.
C5_SortedStable ==
    (ConversationsCalled /\ response.status = "ok") =>
        LET out == response.value IN
        /\ Len(out) = Len(kbConversations)
        /\ {out[i].id : i \in 1..Len(out)} = {c.id : c \in Range(kbConversations)}
        /\ \A i \in 1..Len(out) :
              out[i].last_active =
                  fromtimestamp_ms(kbConversations[InputIndex(out[i].id)].active_at_ms)
        /\ \A i \in 1..Len(out), j \in 1..Len(out) :
              i < j =>
                  \/ out[i].last_active > out[j].last_active
                  \/ /\ out[i].last_active = out[j].last_active
                     /\ InputIndex(out[i].id) < InputIndex(out[j].id)

\* C5 witness: three conversations active at 100, 200, 100 have been returned
\* in the order second, first, third.
C5_Witness ==
    /\ ConversationsCalled /\ response.status = "ok"
    /\ Len(kbConversations) = 3
    /\ kbConversations[1].active_at_ms = 100
    /\ kbConversations[2].active_at_ms = 200
    /\ kbConversations[3].active_at_ms = 100
    /\ [i \in 1..3 |-> response.value[i].id] = <<"c2", "c1", "c3">>

\* The messages of the `read` reply whose content type is text, by position.
TextTyped == {i \in 1..Len(kbMessages) : kbMessages[i].type = "text"}

\* C7 (as stated): for every `read` reply, messages() drops the messages whose
\* content type is not text without raising, returns every text message, and
\* returns them sorted by timestamp ascending; only a failed `keybase` command
\* makes it raise.
C7_Claim ==
    (request.provider = "keybase" /\ request.op = "messages")
        => \/ /\ response.status = "error"
              /\ response.error = "RuntimeError"
           \/ /\ response.status = "ok"
              /\ OldestFirst(response.value)
              /\ Len(response.value) = Cardinality(TextTyped)
              /\ \A i \in TextTyped :
                    Message(fromtimestamp(kbMessages[i].sent_at),
                            kbMessages[i].text.body,
                            kbMessages[i].sender) \in Range(response.value)

====
